---------------------------- MODULE Spec2Model ----------------------------
(***************************************************************************)
(* A model of RobotVision's transformations.h: the prediction and          *)
(* constraint function classes, the SE3 logarithm map and its Jacobians.   *)
(*                                                                         *)
(* Numbers.  Every C++ double is a fixed-point integer counting units of   *)
(* 1/One.  The model evaluates the code on inputs where this arithmetic is *)
(* exact: rotations by whole quarter turns about a coordinate axis, whole  *)
(* translations, and (for the branch tests only) rotations near identity.  *)
(* Where a tangent vector goes through exp or comes out of the general     *)
(* branch of ln, its components are read in units of pi/2, so that a       *)
(* rotation component 1 is one quarter turn.                               *)
(***************************************************************************)
EXTENDS Integers, Sequences, FiniteSets, TLC

One == 10^6

(* bounds of the input sets: translations 0..MaxT, quarter turns 0..MaxK *)
MaxT == 1
MaxK == 1

----------------------------------------------------------------------------
(* fixed-point arithmetic; a product is exact when one factor is whole or
   both are multiples of 1/1000 *)

Milli == 10^3

Mul(a, b) ==
  IF b % One = 0 THEN a * (b \div One)
  ELSE IF a % One = 0 THEN (a \div One) * b
  ELSE (a \div Milli) * (b \div Milli)

Half(a) == a \div 2

RECURSIVE SumN(_, _)
SumN(f, n) == IF n = 0 THEN 0 ELSE f[n] + SumN(f, n - 1)

Zeros(n) == [i \in 1..n |-> 0]
ZeroMat(r, c) == [i \in 1..r |-> [j \in 1..c |-> 0]]
Identity(n) == [i \in 1..n |-> [j \in 1..n |-> IF i = j THEN One ELSE 0]]
UnitVec(n, i, a) == [j \in 1..n |-> IF j = i THEN a ELSE 0]

VecAdd(a, b) == [i \in 1..Len(a) |-> a[i] + b[i]]
VecSub(a, b) == [i \in 1..Len(a) |-> a[i] - b[i]]
VecNeg(a) == [i \in 1..Len(a) |-> 0 - a[i]]
VecScale(s, a) == [i \in 1..Len(a) |-> Mul(s, a[i])]
VecHalf(a) == [i \in 1..Len(a) |-> Half(a[i])]

MatAdd(A, B) == [i \in 1..Len(A) |-> VecAdd(A[i], B[i])]
MatSub(A, B) == [i \in 1..Len(A) |-> VecSub(A[i], B[i])]
MatNeg(A) == [i \in 1..Len(A) |-> VecNeg(A[i])]
MatHalf(A) == [i \in 1..Len(A) |-> VecHalf(A[i])]
Transpose(A) ==
  [j \in 1..Len(A[1]) |-> [i \in 1..Len(A) |-> A[i][j]] \o <<>>] \o <<>>
Col(A, j) == [i \in 1..Len(A) |-> A[i][j]]
(* a matrix with every entry evaluated *)
Mat(A) == [i \in 1..Len(A) |-> A[i] \o <<>>] \o <<>>

MatVec(A, v) ==
  LET a == Mat(A)
      w == v \o <<>>
      n == Len(w)
  IN  [i \in 1..Len(a) |-> SumN([k \in 1..n |-> Mul(a[i][k], w[k])], n)] \o <<>>
MatMul(A, B) ==
  LET a == Mat(A)
      b == Mat(B)
      n == Len(b)
  IN  Mat([i \in 1..Len(a) |->
             [j \in 1..Len(b[1]) |->
                SumN([k \in 1..n |-> Mul(a[i][k], b[k][j])], n)]])

Slice(v, first, n) == [i \in 1..n |-> v[first + i]]

(* maths_utils.h *)
skew(v) == << <<0, 0 - v[3], v[2]>>, <<v[3], 0, 0 - v[1]>>, <<0 - v[2], v[1], 0>> >>

deltaR(R) == <<R[3][2] - R[2][3], R[1][3] - R[3][1], R[2][1] - R[1][2]>>

Cross(a, b) == MatVec(skew(a), b)


----------------------------------------------------------------------------
(* rigid transformations: TooN::SE3<> as a rotation matrix and a translation *)

(* s is the scale of a RobotVision::Sim3<>; a rigid transformation has s = 1 *)
SE3(R, t) == [R |-> R, t |-> t, s |-> One]
SE3Identity == SE3(Identity(3), Zeros(3))

(* the point map x -> R*x + t of a rigid transformation *)
transform(T, x) == VecAdd(MatVec(T.R, x), T.t)

(* T = A * B is the map x -> A(B(x)) *)
SE3mul(A, B) == SE3(MatMul(A.R, B.R), transform(A, B.t))

SE3inverse(A) == SE3(Transpose(A.R), VecNeg(MatVec(Transpose(A.R), A.t)))

(* sine and cosine of n quarter turns *)
SinQ(n) == CASE n % 4 = 1 -> One [] n % 4 = 3 -> 0 - One [] OTHER -> 0
CosQ(n) == CASE n % 4 = 0 -> One [] n % 4 = 2 -> 0 - One [] OTHER -> 0

Whole(a) == a % One = 0
NonZeros(v) == {i \in 1..Len(v) : v[i] # 0}

(* rotation vectors the model can exponentiate: whole quarter turns about
   one coordinate axis *)
AxisAligned(w) == Cardinality(NonZeros(w)) <= 1 /\ \A i \in 1..3 : Whole(w[i])

(* TooN::SO3<>::exp, Rodrigues' formula R = I + sin(th) K + (1 - cos(th)) K^2
   with K the skew matrix of the unit axis *)
SO3exp(w) ==
  IF NonZeros(w) = {} THEN Identity(3)
  ELSE LET i == CHOOSE j \in NonZeros(w) : TRUE
           n == w[i] \div One
           K == skew(UnitVec(3, i, One))
       IN  MatAdd(Identity(3),
                  MatAdd([r \in 1..3 |-> VecScale(SinQ(n), K[r])],
                         [r \in 1..3 |-> VecScale(One - CosQ(n), MatMul(K, K)[r])]))

(* tangent vectors on which TooN::SE3<>::exp is exact here: the rotation is
   axis aligned and the translation is parallel to it, so V*u = u *)
ExpExact(mu) ==
  /\ AxisAligned(Slice(mu, 3, 3))
  /\ Cross(Slice(mu, 3, 3), Slice(mu, 0, 3)) = Zeros(3)

(* TooN::SE3<>(const Vector<6>&), the exponential map: mu[0..2] is the
   translational part, mu[3..5] the rotation vector *)
SE3exp(mu) == SE3(SO3exp(Slice(mu, 3, 3)), Slice(mu, 0, 3))

----------------------------------------------------------------------------
(* SE3Helper: logarithm maps *)

(* 2*d for d = 0.5*(R(0,0)+R(1,1)+R(2,2)-1) *)
d2(R) == R[1][1] + R[2][2] + R[3][3] - One

(* acos(d), in quarter turns, at the values of d the model evaluates it on *)
Acos(dd) == CASE dd = 0 -> One [] dd = 2 * One -> 0 [] dd = 0 - 2 * One -> 2 * One

(* sqrt(1-d*d) at the same values *)
Sqrt1md2(dd) == CASE dd = 0 -> One [] dd = 2 * One -> 0 [] dd = 0 - 2 * One -> 0

FDiv(a, b) == a \div (b \div One)

Thr_ln_so3 == 999990
Thr_ln == 999990
Thr_dlnR_dR == 999990
Thr_dVinvt_dR == 999900
Thr_dlnT_dT == 999990

(* which branch each routine takes: TRUE is the near-identity branch *)
ln_so3_near(R) == d2(R) > 2 * Thr_ln_so3
ln_near(R) == d2(R) > 2 * Thr_ln
dlnR_dR_near(R) == d2(R) > 2 * Thr_dlnR_dR
dVinvt_dR_near(R) == d2(R) > 2 * Thr_dVinvt_dR
dlnT_dT_near(R) == d2(R) > 2 * Thr_dlnT_dT

ln_so3(R) ==
  IF ln_so3_near(R) THEN VecHalf(deltaR(R))
  ELSE VecScale(FDiv(Acos(d2(R)), 2 * Sqrt1md2(d2(R))), deltaR(R))

(* V_inv*t = t - 0.5*Omega*t + c*Omega*Omega*t; the model evaluates it where
   Omega*t = 0 (see LnExact), so the last term, whose factor c is
   irrational in the general branch, is the zero vector *)
V_inv_t(Omega, t) == VecSub(t, VecHalf(MatVec(Omega, t)))

SE3Helper_ln(R, t) ==
  LET omega == IF ln_near(R) THEN VecHalf(deltaR(R))
               ELSE VecScale(FDiv(Acos(d2(R)), 2 * Sqrt1md2(d2(R))), deltaR(R))
      Omega == skew(omega)
  IN  omega \o V_inv_t(Omega, t)

ln_so3xR3(T) == ln_so3(T.R) \o T.t

(* transformations whose logarithm the model computes exactly: no rotation,
   or a quarter turn with the translation along its axis *)
LnExact(T) ==
  \/ T.R = Identity(3)
  \/ /\ d2(T.R) = 0
     /\ Cardinality(NonZeros(deltaR(T.R))) = 1
     /\ Cross(deltaR(T.R), T.t) = Zeros(3)

LnSo3Exact(T) ==
  \/ T.R = Identity(3)
  \/ d2(T.R) = 0 /\ Cardinality(NonZeros(deltaR(T.R))) = 1

(* the divisors of the general branch, by whether they are zero.
   1 - d*d = (1 - d)*(1 + d), so sqrt(1 - d*d) = 0 exactly at d = 1 and
   d = -1; theta = acos(d) is in [0, pi] and is 0 exactly at d = 1;
   tan(theta/2) is 0 on [0, pi] exactly at theta = 0 *)
ZeroSqrt1md2(dd) == (2 * One - dd) = 0 \/ (2 * One + dd) = 0
ZeroTheta(dd) == dd = 2 * One
ZeroTanHalfTheta(dd) == ZeroTheta(dd)

(* the divisors that are zero on the branch ln_so3 takes: the near-identity
   branch divides by nothing *)
ln_so3_zero_divisors(R) ==
  IF ln_so3_near(R) THEN {}
  ELSE {dv \in {"2*sqrt(1-d*d)"} : ZeroSqrt1md2(d2(R))}

(* the same for ln, whose near-identity branch divides by the literal 12 *)
ln_zero_divisors(R) ==
  IF ln_near(R) THEN {}
  ELSE {dv \in {"2*sqrt(1-d*d)"} : ZeroSqrt1md2(d2(R))}
       \cup {dv \in {"2*tan(theta/2)"} : ZeroTanHalfTheta(d2(R))}
       \cup {dv \in {"theta*theta"} : ZeroTheta(d2(R))}


----------------------------------------------------------------------------
(* SE3Helper: Jacobians *)

(* maths_utils.h: Kronecker product *)
kron(A, B) ==
  LET a == Mat(A)
      b == Mat(B)
      rb == Len(b)
      cb == Len(b[1])
  IN  Mat([i \in 1..(Len(a) * rb) |->
             [j \in 1..(Len(a[1]) * cb) |->
                Mul(a[((i - 1) \div rb) + 1][((j - 1) \div cb) + 1],
                    b[((i - 1) % rb) + 1][((j - 1) % cb) + 1])]])

(* J.slice<r0,c0,rows,cols>() = M *)
PutBlock(J, r0, c0, M) ==
  LET a == Mat(J)
      m == Mat(M)
      rows == Len(m)
      cols == Len(m[1])
  IN  Mat([i \in 1..Len(a) |->
             [j \in 1..Len(a[1]) |->
                IF i > r0 /\ i <= r0 + rows /\ j > c0 /\ j <= c0 + cols
                THEN m[i - r0][j - c0] ELSE a[i][j]]])

AsCol(v) == [i \in 1..Len(v) |-> <<v[i]>>]
AsRow(v) == <<v>>

M3x9(a, B) ==
  Transpose(<<a, VecNeg(Col(B, 3)), Col(B, 2),
              Col(B, 3), a, VecNeg(Col(B, 1)),
              VecNeg(Col(B, 2)), Col(B, 1), a>>)

(* the general branches of the three Jacobians below have irrational
   entries (theta = acos(d), cot, csc); the model evaluates the
   near-identity branches, which are rational *)
dlnR_dR(R) ==
  CASE dlnR_dR_near(R) -> M3x9(Zeros(3), MatNeg(MatHalf(Identity(3))))

dVinvt_dR(T) ==
  CASE dVinvt_dR_near(T.R) -> M3x9(Zeros(3), ZeroMat(3, 3))

MatDiv12(A) == [i \in 1..Len(A) |-> [j \in 1..Len(A[1]) |-> A[i][j] \div 12]]

dlnT_dT(T) ==
  LET J0 == PutBlock(ZeroMat(6, 12), 0, 0, dlnR_dR(T.R))
      J1 == PutBlock(J0, 3, 0, dVinvt_dR(T))
      V_inv == CASE dlnT_dT_near(T.R) ->
                 LET omega == VecHalf(deltaR(T.R))
                     Omega == skew(omega)
                 IN  MatAdd(MatSub(Identity(3), MatHalf(Omega)),
                            MatDiv12(MatMul(Omega, Omega)))
  IN  PutBlock(J1, 3, 9, V_inv)

dexp_x_T_ddelta(T) ==
  LET J0 == PutBlock(ZeroMat(12, 6), 0, 3, MatNeg(skew(Col(T.R, 1))))
      J1 == PutBlock(J0, 3, 3, MatNeg(skew(Col(T.R, 2))))
      J2 == PutBlock(J1, 6, 3, MatNeg(skew(Col(T.R, 3))))
      J3 == PutBlock(J2, 9, 3, MatNeg(skew(T.t)))
  IN  PutBlock(J3, 9, 0, Identity(3))

dDiff_dT1(Tc, T2) ==
  LET J0 == PutBlock(ZeroMat(12, 12), 0, 0, kron(T2.R, Tc.R))
      J1 == PutBlock(J0, 9, 0,
                     kron(MatNeg(Transpose(MatMul(Transpose(T2.R), AsCol(T2.t)))),
                          Tc.R))
  IN  PutBlock(J1, 9, 9, Tc.R)

dDiff_dT2(T1, Tc, T2) ==
  LET RcCol(k) == MatMul(Tc.R, AsCol(Col(T1.R, k)))
      I == Identity(3)
      mt2 == AsRow(VecNeg(T2.t))
      J0 == PutBlock(ZeroMat(12, 12), 0, 0, kron(I, RcCol(1)))
      J1 == PutBlock(J0, 0, 3, kron(I, RcCol(2)))
      J2 == PutBlock(J1, 0, 6, kron(I, RcCol(3)))
      J3 == PutBlock(J2, 9, 0, kron(mt2, RcCol(1)))
      J4 == PutBlock(J3, 9, 3, kron(mt2, RcCol(2)))
      J5 == PutBlock(J4, 9, 6, kron(mt2, RcCol(3)))
  IN  PutBlock(J5, 9, 9, MatNeg(MatMul(MatMul(Tc.R, T1.R), Transpose(T2.R))))


----------------------------------------------------------------------------
(* similarity transformations: RobotVision::Sim3<> *)

Sim3(R, t, s) == [R |-> R, t |-> t, s |-> s]

(* 1/s for the scales the model uses (powers of two) *)
Recip(s) == IF Whole(s) THEN One \div (s \div One) ELSE (One \div s) * One

(* the point map x -> s*(R*x) + t of a similarity transformation *)
transformSim3(T, x) == VecAdd(VecScale(T.s, MatVec(T.R, x)), T.t)

Sim3mul(A, B) == Sim3(MatMul(A.R, B.R), transformSim3(A, B.t), Mul(A.s, B.s))

Sim3inverse(A) ==
  Sim3(Transpose(A.R),
       VecNeg(VecScale(Recip(A.s), MatVec(Transpose(A.R), A.t))),
       Recip(A.s))

(* Sim3<>::ln where it is rational: no rotation and unit scale, where the
   translational part is t and the rotational part and log-scale are 0 *)
Sim3LnExact(T) == T.R = Identity(3) /\ T.s = One

Sim3ln(T) == CASE Sim3LnExact(T) -> T.t \o Zeros(3) \o <<0>>

(* Sim3<>(const Vector<7>&) on a pure translation *)
Sim3ExpExact(mu) == Slice(mu, 3, 4) = Zeros(4)

Sim3exp(mu) == CASE Sim3ExpExact(mu) -> Sim3(Identity(3), Slice(mu, 0, 3), One)

----------------------------------------------------------------------------
(* constraint functions *)

(* a diff that composes T1 and C in the other order *)
SE3ConFun_D_swapped(T1, C, T2) == SE3mul(SE3mul(T1, C), SE3inverse(T2))

(* the relative transformation whose logarithm SE3ConFun::diff takes *)
SE3ConFun_D(T1, C, T2) == SE3mul(SE3mul(C, T1), SE3inverse(T2))

SE3ConFun_diff(T1, C, T2) ==
  LET D == SE3ConFun_D(T1, C, T2)
  IN  SE3Helper_ln(D.R, D.t)

(* the relative transformation D of SE3ConFun::d_diff_dT1 and d_diff_dT2 *)
SE3ConFun_JacD(T1, C, T2) == SE3mul(SE3mul(T1, C), SE3inverse(T2))

SE3ConFun_d_diff_dT1(T1, C, T2) ==
  LET dT1_dlnT1 == dexp_x_T_ddelta(T1)
      dD_dT1 == dDiff_dT1(C, T2)
      D == SE3ConFun_JacD(T1, C, T2)
      dlnD_dD == dlnT_dT(D)
  IN  MatMul(MatMul(dlnD_dD, dD_dT1), dT1_dlnT1)

SE3ConFun_d_diff_dT2(T1, C, T2) ==
  LET dT2_dlnT2 == dexp_x_T_ddelta(T2)
      dD_dT2 == dDiff_dT2(T1, C, T2)
      D == SE3ConFun_JacD(T1, C, T2)
      dlnD_dD == dlnT_dT(D)
  IN  MatMul(MatMul(dlnD_dD, dD_dT2), dT2_dlnT2)

SE3ConFun_add(T, delta) == SE3mul(SE3exp(delta), T)

SO3xR3ConFun_diff(T1, C, T2) ==
  ln_so3xR3(SE3mul(SE3mul(C, T1), SE3inverse(T2)))

SO3xR3ConFun_add(T, delta) ==
  LET omega == Slice(delta, 3, 3)
      R == MatMul(SO3exp(omega), T.R)
  IN  SE3(R, VecAdd(T.t, Slice(delta, 0, 3)))

SE3ConFunSO3xR3_diff(T1, C, T2) ==
  ln_so3xR3(SE3mul(SE3mul(C, T1), SE3inverse(T2)))

SE3ConFunSO3xR3_add(T, delta) == SE3mul(SE3exp(delta), T)

Sim3ConFun_diff(T1, C, T2) ==
  Sim3ln(Sim3mul(Sim3mul(C, T1), Sim3inverse(T2)))

Sim3ConFun_add(T, delta) == Sim3mul(Sim3exp(delta), T)


----------------------------------------------------------------------------
(* The forward-difference default Jacobians of AbstractConFun, evaluated on
   SE3ConFun to first order in the step h: a quantity is a value v plus h
   times a coefficient d, and h*h is dropped (a relative error of the order
   of h = 1e-12).  (diff(perturbed) - fun)/h is then the coefficient of the
   perturbed residual. *)

Jet(T, dR, dt) == [v |-> T, dR |-> dR, dt |-> dt]
JetConst(T) == Jet(T, ZeroMat(3, 3), Zeros(3))

(* TooN::SE3<>(eps) for eps = h*e_i: rotation I + h*skew(w), translation h*u *)
JetExp(i) ==
  LET e == UnitVec(6, i, One)
  IN  Jet(SE3Identity, skew(Slice(e, 3, 3)), Slice(e, 0, 3))

JetMul(A, B) ==
  Jet(SE3mul(A.v, B.v),
      MatAdd(MatMul(A.dR, B.v.R), MatMul(A.v.R, B.dR)),
      VecAdd(VecAdd(MatVec(A.dR, B.v.t), MatVec(A.v.R, B.dt)), A.dt))

JetInverse(A) ==
  Jet(SE3inverse(A.v),
      Transpose(A.dR),
      VecNeg(VecAdd(MatVec(Transpose(A.dR), A.v.t),
                    MatVec(Transpose(A.v.R), A.dt))))

(* the coefficient of h in SE3Helper::ln, near-identity branch *)
JetLn(D) ==
  CASE ln_near(D.v.R) ->
    LET omega == VecHalf(deltaR(D.v.R))
        domega == VecHalf(deltaR(D.dR))
        Omega == skew(omega)
        dOmega == skew(domega)
        V_inv == MatAdd(MatSub(Identity(3), MatHalf(Omega)),
                        MatDiv12(MatMul(Omega, Omega)))
        dV_inv == MatAdd(MatNeg(MatHalf(dOmega)),
                         MatDiv12(MatAdd(MatMul(Omega, dOmega),
                                         MatMul(dOmega, Omega))))
    IN  domega \o VecAdd(MatVec(dV_inv, D.v.t), MatVec(V_inv, D.dt))

(* diff(add(T1,eps),C,T2) and diff(T1,C,add(T2,eps)) of SE3ConFun *)
JetDiff(T1, C, T2) == JetLn(JetMul(JetMul(C, T1), JetInverse(T2)))

AbstractConFun_d_diff_dT1(T1, C, T2) ==
  Transpose([i \in 1..6 |->
     JetDiff(JetMul(JetExp(i), JetConst(T1)), JetConst(C), JetConst(T2))])

AbstractConFun_d_diff_dT2(T1, C, T2) ==
  Transpose([i \in 1..6 |->
     JetDiff(JetConst(T1), JetConst(C), JetMul(JetExp(i), JetConst(T2)))])

Abs(a) == IF a < 0 THEN 0 - a ELSE a
MaxOf(S) == CHOOSE m \in S : \A n \in S : n <= m
MaxAbs(A) == MaxOf({Abs(A[i][j]) : i \in 1..Len(A), j \in 1..Len(A[1])})

(* A matches B to within a relative error of 1e-4 *)
RelTolInv == 10^4
Within(A, B) == MaxAbs(MatSub(A, B)) <= MaxAbs(B) \div RelTolInv

----------------------------------------------------------------------------
(* prediction models *)

(* Camera/linear_camera.h: the affine pixel mapping and its constant Jacobian *)
LinearCamera(f, pp) == [focal |-> f, pp |-> pp]
LinearCamera_map(cam, p) ==
  <<Mul(cam.focal[1], p[1]) + cam.pp[1], Mul(cam.focal[2], p[2]) + cam.pp[2]>>
LinearCamera_jacobian(cam) == <<<<cam.focal[1], 0>>, <<0, cam.focal[2]>>>>

(* TooN::project: divide by the last component and drop it *)
project(v) == [i \in 1..(Len(v) - 1) |-> FDiv(v[i], v[Len(v)])]

Po2(a) == Mul(a, a)

SE3XYZ_map(cam, T, x) == LinearCamera_map(cam, project(transform(T, x)))

(* the 2x6 matrix J_frame of SE3XYZ::frameJac and SE3UVQ::frameJac *)
J_frame(xyz_trans) ==
  LET x == xyz_trans[1]
      y == xyz_trans[2]
      z == xyz_trans[3]
      z_2 == Po2(z)
  IN  << <<FDiv(One, z), 0, FDiv(0 - x, z_2), FDiv(Mul(0 - x, y), z_2),
           One + FDiv(Po2(x), z_2), FDiv(0 - y, z)>>,
         <<0, FDiv(One, z), FDiv(0 - y, z_2), 0 - (One + FDiv(Po2(y), z_2)),
           FDiv(Mul(x, y), z_2), FDiv(x, z)>> >>

SE3XYZ_frameJac(cam, T, xyz) ==
  MatMul(LinearCamera_jacobian(cam), J_frame(transform(T, xyz)))

(* the 2x3 matrix tmp of the point Jacobians *)
tmp2x3(xyz_trans) ==
  << <<One, 0, FDiv(0 - xyz_trans[1], xyz_trans[3])>>,
     <<0, One, FDiv(0 - xyz_trans[2], xyz_trans[3])>> >>

MatScale(c, A) == [i \in 1..Len(A) |-> VecScale(c, A[i])]

SE3XYZ_pointJac(cam, T, xyz) ==
  LET xyz_trans == transform(T, xyz)
      J_x == MatMul(MatScale(FDiv(One, xyz_trans[3]), tmp2x3(xyz_trans)), T.R)
  IN  MatMul(LinearCamera_jacobian(cam), J_x)

SE3XYZ_add(x, delta) == VecAdd(x, delta)

(* inverse depth: x = 1./uvq[2] * (uvq[0], uvq[1], 1) *)
UVQ_xyz(uvq) == VecScale(Recip(uvq[3]), <<uvq[1], uvq[2], One>>)

SE3UVQ_map(cam, T, uvq) ==
  LinearCamera_map(cam, project(transform(T, UVQ_xyz(uvq))))

SE3UVQ_frameJac(cam, T, uvq) ==
  MatMul(LinearCamera_jacobian(cam), J_frame(transform(T, UVQ_xyz(uvq))))

SE3UVQ_pointJac(cam, T, uvq) ==
  LET xyz_trans == transform(T, UVQ_xyz(uvq))
      R12t == Transpose(<<Col(T.R, 1), Col(T.R, 2), T.t>>)
      J_x == MatMul(MatScale(Recip(Mul(xyz_trans[3], uvq[3])),
                             tmp2x3(xyz_trans)), R12t)
  IN  MatMul(LinearCamera_jacobian(cam), J_x)

SE3UVQ_add(x, delta) == VecAdd(x, delta)

SE3_AbstractPoint_add(T, delta) == SE3mul(SE3exp(delta), T)

(* TooN::SE2<>: a 2x2 rotation and a 2-vector; exp reads mu[0..1] as the
   translational part and mu[2] as the angle (here in quarter turns) *)
SE2(R, t) == [R |-> R, t |-> t, s |-> One]
SO2exp(n) == << <<CosQ(n), 0 - SinQ(n)>>, <<SinQ(n), CosQ(n)>> >>
SE2ExpExact(mu) == Whole(mu[3]) /\ (mu[3] = 0 \/ Slice(mu, 0, 2) = Zeros(2))
SE2exp(mu) == SE2(SO2exp(mu[3] \div One), Slice(mu, 0, 2))
SE2mul(A, B) == SE2(MatMul(A.R, B.R), VecAdd(MatVec(A.R, B.t), A.t))

SE2_AbstractPoint_add(T, delta) == SE2mul(SE2exp(delta), T)

SE2XY_map(T, x) == project(VecAdd(MatVec(T.R, x), T.t))
SE2XY_add(p, delta) == VecAdd(p, delta)

(* frame metadata *)
SE3_first_trans_id == 0
SE3_num_trans_pars == 3
(* metadata that names the translational slice as the rotational one *)
SE3_first_rot_id_trans == SE3_first_trans_id
SE3_first_rot_id == 3
SE3_num_rot_pars == 3
SE2_first_rot_id == 2
SE2_num_rot_pars == 1
SE2_first_trans_id == 0
SE2_num_trans_pars == 2

(* the forward-difference default Jacobians of AbstractPrediction on the
   projective models, to first order in h *)

(* the coefficient of h in project(X + h*dX) *)
dproject(X, dX) ==
  LET n == Len(X)
  IN  [k \in 1..(n - 1) |->
         FDiv(dX[k], X[n]) - FDiv(Mul(X[k], dX[n]), Po2(X[n]))]

dLinearCamera_map(cam, dp) ==
  <<Mul(cam.focal[1], dp[1]), Mul(cam.focal[2], dp[2])>>

(* the coefficient of h in transform(T, q) when T is perturbed *)
JetTransform(Tj, q) == VecAdd(MatVec(Tj.dR, q), Tj.dt)

(* the Euclidean point of a point parameter, and the coefficient of h in
   it when add(x, eps) perturbs parameter k *)
PointOf(m, p) == IF m = "SE3UVQ" THEN UVQ_xyz(p) ELSE p
dPointOf(m, p, k) ==
  IF m = "SE3UVQ"
  THEN IF k < 3 THEN UnitVec(3, k, Recip(p[3]))
       ELSE VecNeg(VecScale(Recip(Po2(p[3])), <<p[1], p[2], One>>))
  ELSE UnitVec(3, k, One)

AbstractPrediction_frameJac(m, cm, T, p) ==
  Transpose([k \in 1..6 |->
     dLinearCamera_map(cm,
        dproject(transform(T, PointOf(m, p)),
                 JetTransform(JetMul(JetExp(k), JetConst(T)), PointOf(m, p))))])

AbstractPrediction_pointJac(m, cm, T, p) ==
  Transpose([k \in 1..3 |->
     dLinearCamera_map(cm,
        dproject(transform(T, PointOf(m, p)), MatVec(T.R, dPointOf(m, p, k))))])

----------------------------------------------------------------------------
(* The caller's view of the sequential interface: a model object, the
   frames, constraint and point the caller owns, the last call made and the
   value it returned. *)

VARIABLES model, cam, T1, C, T2, x, last, ret

(* The default Jacobian routines run step by step by concurrent threads:
   position, routine, the routine's automatic variables (held in slots), the
   returned matrix and counts of loop iterations and map/diff evaluations. *)
VARIABLES pc, routine, i, fun, J, result, evals, iters, overlapped

(* The GuiWindow object (win), the AbstractView objects it is given (views),
   the call just made on the window (called) and what the handlers have been
   sent: by that call (delivered), the activation events of each view so
   far (received), the views passed to connectView so far (connected), and
   whether an activation event was ever routed by on_event itself
   (forwarded). *)
VARIABLES win, views, called, delivered, received, connected, forwarded

callVars == <<model, cam, T1, C, T2, x, last, ret>>
ndVars == <<pc, routine, i, fun, J, result, evals, iters, overlapped>>
guiVars == <<win, views, called, delivered, received, connected, forwarded>>
vars == <<model, cam, T1, C, T2, x, last, ret,
          pc, routine, i, fun, J, result, evals, iters, overlapped,
          win, views, called, delivered, received, connected, forwarded>>

ConModels == {"SE3ConFun", "SO3xR3ConFun", "SE3ConFunSO3xR3", "Sim3ConFun"}
PredModels == {"SE3XYZ", "SE3UVQ", "SE2XY"}

(* input sets *)
Rz(k) == SO3exp(<<0, 0, k * One>>)
Poses == {SE3(Rz(k), <<a * One, 0, 0>>) : k \in 0..MaxK, a \in 0..MaxT}
Scales == {One, 2 * One}
SimPoses == {Sim3(T.R, T.t, sc) : T \in Poses, sc \in Scales}
Poses2 == {SE2(SO2exp(k), <<a * One, One>>) : k \in 0..MaxK, a \in 0..MaxT}
Depths == {One, 2 * One}
Points == {<<a * One, b * One, z>> : a \in 0..MaxT, b \in 0..MaxT, z \in Depths}
InvDepths == {One, One \div 2}
UVQs == {<<a * One, b * One, q>> : a \in 0..MaxT, b \in 0..MaxT, q \in InvDepths}
Points2 == {<<a * One, b * One>> : a \in 0..MaxT, b \in 1..(MaxT + 1)}
Camera == LinearCamera(<<2 * One, 2 * One>>, <<One, One>>)

FramesOf(m) ==
  CASE m = "Sim3ConFun" -> SimPoses
    [] m = "SE2XY" -> Poses2
    [] OTHER -> Poses
PointsOf(m) ==
  CASE m = "SE3XYZ" -> Points
    [] m = "SE3UVQ" -> UVQs
    [] m = "SE2XY" -> Points2
    [] OTHER -> {Zeros(3)}
NoFrame == SE3Identity

FrameDoF(m) == CASE m = "Sim3ConFun" -> 7 [] m = "SE2XY" -> 3 [] OTHER -> 6
PointDoF(m) == IF m = "SE2XY" THEN 2 ELSE 3

(* T2 * T1^-1 in the group of model m *)
Rel(m, A, B) ==
  IF m = "Sim3ConFun" THEN Sim3mul(B, Sim3inverse(A))
  ELSE SE3mul(B, SE3inverse(A))

Threads == {"t1", "t2"}
NoRoutine == [name |-> "none", model |-> "none"]

----------------------------------------------------------------------------
(* GuiWindow: the objects *)

NULL == "NULL"
Views == {"v1", "v2"}
NoId == 0 - 1
PixelSize == <<4, 4>>
NoBox == [x1 |-> 0, y1 |-> 0, x2 |-> 0, y2 |-> 0]

(* GuiWindow::GuiWindow: no view connected, no view active *)
GuiWindow ==
  [num_id |-> 0, active_view |-> NULL, mode |-> 0, viewpt_list |-> <<>>,
   active_pos |-> <<0, 0>>]

(* an AbstractView before it is connected, with the handler it keeps *)
AbstractView(h) ==
  [id |-> NoId, bounding_box |-> NoBox, pixel_size |-> PixelSize, handler |-> h]

(* the window constructed and the views created, nothing sent yet *)
GuiConstructed(handlers) ==
  /\ win = GuiWindow
  /\ views = [v \in Views |-> AbstractView(handlers[v])]
  /\ called = [name |-> "GuiWindow", args |-> <<>>]
  /\ delivered = <<>>
  /\ received = [v \in Views |-> <<>>]
  /\ connected = <<>>
  /\ forwarded = FALSE

Init ==
  /\ model \in ConModels \cup PredModels
  /\ cam = Camera
  /\ T1 \in FramesOf(model)
  /\ IF model \in ConModels
     THEN /\ T2 \in FramesOf(model)
          /\ C \in Poses \cup {Rel(model, T1, T2)}
     ELSE /\ T2 = NoFrame
          /\ C = NoFrame
  /\ x \in PointsOf(model)
  /\ last = "none"
  /\ ret = <<>>
  /\ pc = [t \in Threads |-> "idle"]
  /\ routine = [t \in Threads |-> NoRoutine]
  /\ i = [t \in Threads |-> 0]
  /\ fun = [t \in Threads |-> <<>>]
  /\ J = [t \in Threads |-> <<>>]
  /\ result = [t \in Threads |-> <<>>]
  /\ evals = [t \in Threads |-> 0]
  /\ iters = [t \in Threads |-> 0]
  /\ overlapped = [t \in Threads |-> FALSE]
  /\ GuiConstructed([v \in Views |-> NULL])

----------------------------------------------------------------------------
(* virtual dispatch on the model object *)

diff(m, A, Cc, B) ==
  CASE m = "SE3ConFun" -> SE3ConFun_diff(A, Cc, B)
    [] m = "SO3xR3ConFun" -> SO3xR3ConFun_diff(A, Cc, B)
    [] m = "SE3ConFunSO3xR3" -> SE3ConFunSO3xR3_diff(A, Cc, B)
    [] m = "Sim3ConFun" -> Sim3ConFun_diff(A, Cc, B)

add(m, T, delta) ==
  CASE m = "SE3ConFun" -> SE3ConFun_add(T, delta)
    [] m = "SO3xR3ConFun" -> SO3xR3ConFun_add(T, delta)
    [] m = "SE3ConFunSO3xR3" -> SE3ConFunSO3xR3_add(T, delta)
    [] m = "Sim3ConFun" -> Sim3ConFun_add(T, delta)
    [] m = "SE2XY" -> SE2_AbstractPoint_add(T, delta)
    [] m \in {"SE3XYZ", "SE3UVQ"} -> SE3_AbstractPoint_add(T, delta)

addPoint(m, p, delta) ==
  CASE m = "SE3XYZ" -> SE3XYZ_add(p, delta)
    [] m = "SE3UVQ" -> SE3UVQ_add(p, delta)
    [] m = "SE2XY" -> SE2XY_add(p, delta)

map(m, cm, T, p) ==
  CASE m = "SE3XYZ" -> SE3XYZ_map(cm, T, p)
    [] m = "SE3UVQ" -> SE3UVQ_map(cm, T, p)
    [] m = "SE2XY" -> SE2XY_map(T, p)

frameJac(m, cm, T, p) ==
  CASE m = "SE3XYZ" -> SE3XYZ_frameJac(cm, T, p)
    [] m = "SE3UVQ" -> SE3UVQ_frameJac(cm, T, p)

pointJac(m, cm, T, p) ==
  CASE m = "SE3XYZ" -> SE3XYZ_pointJac(cm, T, p)
    [] m = "SE3UVQ" -> SE3UVQ_pointJac(cm, T, p)

(* the inputs on which the model's arithmetic is exact *)
DiffExact(m, A, Cc, B) ==
  CASE m = "SE3ConFun" -> LnExact(SE3ConFun_D(A, Cc, B))
    [] m \in {"SO3xR3ConFun", "SE3ConFunSO3xR3"} ->
         LnSo3Exact(SE3mul(SE3mul(Cc, A), SE3inverse(B)))
    [] m = "Sim3ConFun" ->
         Sim3LnExact(Sim3mul(Sim3mul(Cc, A), Sim3inverse(B)))

AddExact(m, delta) ==
  CASE m = "Sim3ConFun" -> Sim3ExpExact(delta)
    [] m = "SE2XY" -> SE2ExpExact(delta)
    [] OTHER -> ExpExact(delta)

JacExact(A, Cc, B) ==
  /\ ln_near(SE3ConFun_D(A, Cc, B).R)
  /\ dlnR_dR_near(SE3ConFun_JacD(A, Cc, B).R)
  /\ dVinvt_dR_near(SE3ConFun_JacD(A, Cc, B).R)
  /\ dlnT_dT_near(SE3ConFun_JacD(A, Cc, B).R)

MapExact(m, T, p) ==
  m = "SE2XY" => VecAdd(MatVec(T.R, p), T.t)[2] > 0

(* an argument perturbed in place *)
InPlace(arg, value) == value

(* an argument passed by const reference, after a call that computed
   value from it *)
ConstRef(arg, value) == arg

(* rotations about z close to the identity, by their cosine and sine *)
SmallRz(c, sn) == << <<c, 0 - sn, 0>>, <<sn, c, 0>>, <<0, 0, One>> >>
ProbeRotations ==
  {SmallRz(One, 0), SmallRz(999995, 3162), SmallRz(999950, 10000),
   SmallRz(999000, 44710)}

(* rotation matrices over the whole range of d: the four quarter turns
   about z (d = 1, 0, -1, 0), rotations close to the identity and one close
   to a half turn *)
LogRotations ==
  {Rz(k) : k \in 0..3} \cup ProbeRotations \cup {SmallRz(0 - 999950, 10000)}

----------------------------------------------------------------------------
(* calls: a behaviour is one call on the inputs the caller chose *)

(* add(T1, ln(T2 * T1^-1)) *)
RoundTrip ==
  /\ last = "none"
  /\ model = "SE3ConFun"
  /\ LET D == SE3mul(T2, SE3inverse(T1))
     IN  /\ LnExact(D)
         /\ ExpExact(SE3Helper_ln(D.R, D.t))
         /\ ret' = SE3ConFun_add(T1, SE3Helper_ln(D.R, D.t))
  /\ last' = "roundtrip"
  /\ UNCHANGED <<model, cam, T1, C, T2, x>>
  /\ UNCHANGED ndVars
  /\ UNCHANGED guiVars

Call_diff ==
  /\ last = "none"
  /\ model \in ConModels
  /\ DiffExact(model, T1, C, T2)
  /\ ret' = diff(model, T1, C, T2)
  /\ last' = "diff"
  /\ UNCHANGED <<model, cam, T1, C, T2, x>>
  /\ UNCHANGED ndVars
  /\ UNCHANGED guiVars

Call_d_diff_dT1 ==
  /\ last = "none"
  /\ model = "SE3ConFun"
  /\ JacExact(T1, C, T2)
  /\ ret' = [D |-> SE3ConFun_JacD(T1, C, T2),
             J |-> SE3ConFun_d_diff_dT1(T1, C, T2)]
  /\ last' = "d_diff_dT1"
  /\ UNCHANGED <<model, cam, T1, C, T2, x>>
  /\ UNCHANGED ndVars
  /\ UNCHANGED guiVars

Call_d_diff_dT2 ==
  /\ last = "none"
  /\ model = "SE3ConFun"
  /\ JacExact(T1, C, T2)
  /\ ret' = [D |-> SE3ConFun_JacD(T1, C, T2),
             J |-> SE3ConFun_d_diff_dT2(T1, C, T2)]
  /\ last' = "d_diff_dT2"
  /\ UNCHANGED <<model, cam, T1, C, T2, x>>
  /\ UNCHANGED ndVars
  /\ UNCHANGED guiVars

Call_add ==
  /\ last = "none"
  /\ \E j \in 1..FrameDoF(model) :
       LET delta == UnitVec(FrameDoF(model), j, One)
       IN  /\ AddExact(model, delta)
           /\ ret' = [delta |-> delta, T |-> add(model, T1, delta)]
           /\ T1' = ConstRef(T1, add(model, T1, delta))
  /\ last' = "add"
  /\ UNCHANGED <<model, cam, C, T2, x>>
  /\ UNCHANGED ndVars
  /\ UNCHANGED guiVars

Call_addPoint ==
  /\ last = "none"
  /\ model \in PredModels
  /\ \E j \in 1..PointDoF(model) :
       LET delta == UnitVec(PointDoF(model), j, One)
       IN  /\ ret' = [delta |-> delta, x |-> addPoint(model, x, delta)]
           /\ x' = ConstRef(x, addPoint(model, x, delta))
  /\ last' = "addPoint"
  /\ UNCHANGED <<model, cam, T1, C, T2>>
  /\ UNCHANGED ndVars
  /\ UNCHANGED guiVars

Call_map ==
  /\ last = "none"
  /\ model \in PredModels
  /\ MapExact(model, T1, x)
  /\ ret' = map(model, cam, T1, x)
  /\ last' = "map"
  /\ UNCHANGED <<model, cam, T1, C, T2, x>>
  /\ UNCHANGED ndVars
  /\ UNCHANGED guiVars

Call_frameJac ==
  /\ last = "none"
  /\ model \in {"SE3XYZ", "SE3UVQ"}
  /\ ret' = frameJac(model, cam, T1, x)
  /\ last' = "frameJac"
  /\ UNCHANGED <<model, cam, T1, C, T2, x>>
  /\ UNCHANGED ndVars
  /\ UNCHANGED guiVars

Call_pointJac ==
  /\ last = "none"
  /\ model \in {"SE3XYZ", "SE3UVQ"}
  /\ ret' = pointJac(model, cam, T1, x)
  /\ last' = "pointJac"
  /\ UNCHANGED <<model, cam, T1, C, T2, x>>
  /\ UNCHANGED ndVars
  /\ UNCHANGED guiVars

(* the five logarithm routines on one rotation: which branch each takes *)
Call_ln_branches ==
  /\ last = "none"
  /\ model = "SE3ConFun"
  /\ \E R \in ProbeRotations :
       ret' = [R |-> R,
               ln_so3 |-> ln_so3_near(R),
               ln |-> ln_near(R),
               dlnR_dR |-> dlnR_dR_near(R),
               dVinvt_dR |-> dVinvt_dR_near(R),
               dlnT_dT |-> dlnT_dT_near(R)]
  /\ last' = "branches"
  /\ UNCHANGED <<model, cam, T1, C, T2, x>>
  /\ UNCHANGED ndVars
  /\ UNCHANGED guiVars

(* ln_so3 and ln on one rotation matrix: the divisors that are zero on the
   branch taken *)
Call_ln_divisors ==
  /\ last = "none"
  /\ model = "SE3ConFun"
  /\ \E R \in LogRotations :
       ret' = [R |-> R,
               near |-> ln_near(R),
               ln_so3 |-> ln_so3_zero_divisors(R),
               ln |-> ln_zero_divisors(R)]
  /\ last' = "divisors"
  /\ UNCHANGED <<model, cam, T1, C, T2, x>>
  /\ UNCHANGED ndVars
  /\ UNCHANGED guiVars

Next ==
  \/ RoundTrip
  \/ Call_diff
  \/ Call_d_diff_dT1
  \/ Call_d_diff_dT2
  \/ Call_add
  \/ Call_addPoint
  \/ Call_map
  \/ Call_frameJac
  \/ Call_pointJac
  \/ Call_ln_branches
  \/ Call_ln_divisors

Spec == Init /\ [][Next]_vars

----------------------------------------------------------------------------
(* properties of the sequential interface *)

(* C1: the round trip add(T1, ln(T2 * T1^-1)) returns T2: what SE3Helper::ln
   writes as rotation and translation is what add reads as such *)
C1_RoundTrip == last = "roundtrip" => ret = T2

(* C2: for every constraint model, diff(T1, C, T2) with C = T2 * T1^-1 is
   the zero vector *)
C2_CompositionLaw ==
  (last = "diff" /\ C = Rel(model, T1, T2)) => ret = Zeros(FrameDoF(model))

C2_Witness ==
  /\ last = "diff"
  /\ model = "SE3ConFun"
  /\ C = Rel(model, T1, T2)
  /\ T1.R # Identity(3)
  /\ T2.t # Zeros(3)
  /\ T1 # T2
  /\ ret = Zeros(6)

(* C3: the transformation D at which SE3ConFun::d_diff_dT1 and d_diff_dT2
   evaluate dlnT_dT is C * T1 * T2^-1, the one whose logarithm diff takes *)
C3_SameResidual ==
  last \in {"d_diff_dT1", "d_diff_dT2"} => ret.D = SE3ConFun_D(T1, C, T2)

(* C4: ln_so3, ln, dlnR_dR, dVinvt_dR and dlnT_dT each take the
   near-identity branch exactly when d > 0.99999 *)
C4_SameThreshold ==
  last = "branches" =>
    LET near == d2(ret.R) > 2 * 999990
    IN  /\ ret.ln_so3 = near
        /\ ret.ln = near
        /\ ret.dlnR_dR = near
        /\ ret.dVinvt_dR = near
        /\ ret.dlnT_dT = near

(* C5: every analytic Jacobian matches the forward-difference fallback of
   the same model on the same inputs to within 1e-4 relative error *)
C5_JacobianConsistency ==
  /\ last = "frameJac" =>
       Within(ret, AbstractPrediction_frameJac(model, cam, T1, x))
  /\ last = "pointJac" =>
       Within(ret, AbstractPrediction_pointJac(model, cam, T1, x))
  /\ last = "d_diff_dT1" =>
       Within(ret.J, AbstractConFun_d_diff_dT1(T1, C, T2))
  /\ last = "d_diff_dT2" =>
       Within(ret.J, AbstractConFun_d_diff_dT2(T1, C, T2))

(* C6: no call changes a frame, point or constraint argument or the model
   object; add returns a new value *)
C6_NoMutation ==
  [][/\ T1' = T1
     /\ C' = C
     /\ T2' = T2
     /\ x' = x
     /\ cam' = cam
     /\ model' = model]_vars

C6_Witness == last = "add" /\ ret.T # T1 /\ ret.T.R # T1.R

(* the metadata of a prediction model and the index slices it names,
   counted from 0 as in the code *)
first_rot_id(m) == IF m = "SE2XY" THEN SE2_first_rot_id ELSE SE3_first_rot_id
num_rot_pars(m) == IF m = "SE2XY" THEN SE2_num_rot_pars ELSE SE3_num_rot_pars
first_trans_id(m) ==
  IF m = "SE2XY" THEN SE2_first_trans_id ELSE SE3_first_trans_id
num_trans_pars(m) ==
  IF m = "SE2XY" THEN SE2_num_trans_pars ELSE SE3_num_trans_pars
RotSlice(m) == first_rot_id(m)..(first_rot_id(m) + num_rot_pars(m) - 1)
TransSlice(m) == first_trans_id(m)..(first_trans_id(m) + num_trans_pars(m) - 1)

TangentIndex(delta) == (CHOOSE j \in 1..Len(delta) : delta[j] # 0) - 1
QuarterTurn(m, k) ==
  IF m = "SE2XY" THEN SO2exp(1) ELSE SO3exp(UnitVec(3, k + 1, One))

(* C8: the rotational and translational slices of the metadata are 3..5
   and 0..2 for the SE3 prediction models, 2 and 0..1 for SE2; they are
   disjoint and cover the tangent vector; add, the columns of the analytic
   frameJac and the columns of dexp_x_T_ddelta treat the indices of the
   translational slice as translations and those of the rotational slice
   as rotations *)
C8_FrameMetadata ==
  /\ \A m \in PredModels :
       /\ RotSlice(m) \cap TransSlice(m) = {}
       /\ RotSlice(m) \cup TransSlice(m) = 0..(FrameDoF(m) - 1)
  /\ \A m \in {"SE3XYZ", "SE3UVQ"} : RotSlice(m) = 3..5 /\ TransSlice(m) = 0..2
  /\ RotSlice("SE2XY") = {2}
  /\ TransSlice("SE2XY") = 0..1
  /\ (last = "add" /\ model \in PredModels) =>
       LET j == TangentIndex(ret.delta)
       IN  /\ j \in TransSlice(model) =>
                /\ ret.T.R = T1.R
                /\ ret.T.t = VecAdd(T1.t, UnitVec(Len(T1.t),
                                      j - first_trans_id(model) + 1, One))
           /\ j \in RotSlice(model) =>
                LET Q == QuarterTurn(model, j - first_rot_id(model))
                IN  /\ ret.T.R = MatMul(Q, T1.R)
                    /\ ret.T.t = MatVec(Q, T1.t)
  /\ last = "frameJac" =>
       LET X == transform(T1, PointOf(model, x))
       IN  \A j \in 0..5 :
             /\ j \in TransSlice(model) =>
                  Col(ret, j + 1) = dLinearCamera_map(cam,
                    dproject(X, UnitVec(3, j - first_trans_id(model) + 1, One)))
             /\ j \in RotSlice(model) =>
                  Col(ret, j + 1) = dLinearCamera_map(cam,
                    dproject(X, Cross(UnitVec(3, j - first_rot_id(model) + 1,
                                              One), X)))
  /\ model \in {"SE3XYZ", "SE3UVQ"} =>
       LET Jd == dexp_x_T_ddelta(T1)
       IN  \A j \in 0..5 :
             /\ j \in TransSlice(model) =>
                  Col(Jd, j + 1) = Zeros(9) \o
                    UnitVec(3, j - first_trans_id(model) + 1, One)
             /\ j \in RotSlice(model) =>
                  LET e == UnitVec(3, j - first_rot_id(model) + 1, One)
                  IN  Col(Jd, j + 1) =
                        Cross(e, Col(T1.R, 1)) \o Cross(e, Col(T1.R, 2)) \o
                        Cross(e, Col(T1.R, 3)) \o Cross(e, T1.t)

C8_Witness ==
  /\ last = "frameJac"
  /\ model = "SE3XYZ"
  /\ T1.R # Identity(3)
  /\ T1.t # Zeros(3)
  /\ x[1] # 0
  /\ x[2] # 0
  /\ ret[1][5] # 0
  /\ ret[2][3] # 0

(* C11: for every rotation matrix with d in [-1, 1], no divisor of the
   branch that ln_so3 and ln take (2*sqrt(1 - d*d), theta*theta,
   tan(theta/2)) is zero *)
C11_LnDefined ==
  last = "divisors" => ret.ln_so3 = {} /\ ret.ln = {}

----------------------------------------------------------------------------
(* The default Jacobians of AbstractPrediction and AbstractConFun, step by
   step.  map, diff and add are the pure virtual functions of the abstract
   classes, so an evaluation is kept as a term: the function and, for each
   argument, the caller's value it is and the tangent vector added to it. *)

(* the step h = 0.000000000001, in units of 1e-12 *)
H == 1

Plain(base) == [base |-> base, eps |-> <<>>]
Added(base, eps) == [base |-> base, eps |-> eps]
Eval(fn, args) == [fn |-> fn, args |-> args]
NoEval == Eval("none", <<>>)

(* (a - b)/h, and the zero column of TooN::Zeros *)
Quot(a, b) == [minuend |-> a, subtrahend |-> b, h |-> H]
ZeroCol == [minuend |-> NoEval, subtrahend |-> NoEval, h |-> 0]

JacNames == {"frameJac", "pointJac", "d_diff_dT1", "d_diff_dT2"}
FunOf(name) == IF name \in {"frameJac", "pointJac", "map"} THEN "map" ELSE "diff"
ArgNames(fn) == IF fn = "map" THEN <<"T", "x">> ELSE <<"T1", "C", "T2">>
PerturbedArg(name) ==
  CASE name = "frameJac" -> 1
    [] name = "pointJac" -> 2
    [] name = "d_diff_dT1" -> 1
    [] name = "d_diff_dT2" -> 3
DoFOf(r) == IF r.name = "pointJac" THEN PointDoF(r.model) ELSE FrameDoF(r.model)

(* the models that inherit a default Jacobian, and the calls a thread makes *)
Routines ==
  {[name |-> n, model |-> "SE2XY"] : n \in {"frameJac", "pointJac", "map"}}
  \cup {[name |-> n, model |-> m] :
          n \in {"d_diff_dT1", "d_diff_dT2", "diff"},
          m \in {"SO3xR3ConFun", "Sim3ConFun"}}

(* the arguments thread t passes: its own frames and point *)
PlainArgs(t, fn) == [a \in 1..Len(ArgNames(fn)) |-> Plain(<<t, ArgNames(fn)[a]>>)]

(* eps of a tangent vector with h at one index; eps that is not reset *)
EpsKept(n, k) == [j \in 1..n |-> IF j <= k + 1 THEN H ELSE 0]
Eps(n, k) == UnitVec(n, k + 1, H)

PerturbedArgs(t, r, k) ==
  [a \in 1..Len(ArgNames(FunOf(r.name))) |->
     IF a = PerturbedArg(r.name)
     THEN Added(<<t, ArgNames(FunOf(r.name))[a]>>, Eps(DoFOf(r), k))
     ELSE Plain(<<t, ArgNames(FunOf(r.name))[a]>>)]

(* the loop test i < DoF, and one that leaves the loop one iteration early *)
LoopCond_short(k, n) == k + 1 < n
LoopCond(k, n) == k < n

(* where a call keeps h, J, fun, i and eps: automatic variables of the
   call's own activation; or one static copy *)
SharedSlot(t) == "t1"
Slot(t) == t

(* thread t took a step: every other thread inside a routine has run
   concurrently with it *)
Overlap(t) ==
  [u \in Threads |->
     IF u # t /\ pc[u] \in {"entry", "loop"} THEN TRUE ELSE overlapped[u]]

(* enter a default Jacobian: J = Zeros *)
Begin(t) ==
  /\ pc[t] = "idle"
  /\ \E r \in Routines :
       /\ r.name \in JacNames
       /\ routine' = [routine EXCEPT ![t] = r]
       /\ J' = [J EXCEPT ![Slot(t)] =
                  [c \in 1..DoFOf(r) |-> [writes |-> 0, val |-> ZeroCol]]]
  /\ pc' = [pc EXCEPT ![t] = "entry"]
  /\ evals' = [evals EXCEPT ![t] = 0]
  /\ iters' = [iters EXCEPT ![t] = 0]
  /\ overlapped' = Overlap(t)
  /\ UNCHANGED <<i, fun, result>>
  /\ UNCHANGED callVars
  /\ UNCHANGED guiVars

(* fun = map(T,x) or diff(T1,C,T2); i = 0 *)
Baseline(t) ==
  /\ pc[t] = "entry"
  /\ fun' = [fun EXCEPT ![Slot(t)] =
               Eval(FunOf(routine[t].name), PlainArgs(t, FunOf(routine[t].name)))]
  /\ i' = [i EXCEPT ![Slot(t)] = 0]
  /\ evals' = [evals EXCEPT ![t] = @ + 1]
  /\ pc' = [pc EXCEPT ![t] = "loop"]
  /\ overlapped' = Overlap(t)
  /\ UNCHANGED <<routine, J, result, iters>>
  /\ UNCHANGED callVars
  /\ UNCHANGED guiVars

(* one iteration: eps = Zeros; eps[i] = h; J.T()[i] = (f(perturbed) - fun)/h *)
LoopBody(t) ==
  /\ pc[t] = "loop"
  /\ LoopCond(i[Slot(t)], DoFOf(routine[t]))
  /\ J' = [J EXCEPT ![Slot(t)] =
             [c \in DOMAIN J[Slot(t)] |->
                IF c = i[Slot(t)] + 1
                THEN [writes |-> J[Slot(t)][c].writes + 1,
                      val |-> Quot(Eval(FunOf(routine[t].name),
                                        PerturbedArgs(t, routine[t], i[Slot(t)])),
                                   fun[Slot(t)])]
                ELSE J[Slot(t)][c]]]
  /\ i' = [i EXCEPT ![Slot(t)] = @ + 1]
  /\ evals' = [evals EXCEPT ![t] = @ + 1]
  /\ iters' = [iters EXCEPT ![t] = @ + 1]
  /\ overlapped' = Overlap(t)
  /\ UNCHANGED <<pc, routine, fun, result>>
  /\ UNCHANGED callVars
  /\ UNCHANGED guiVars

(* the loop test fails: return J *)
Return(t) ==
  /\ pc[t] = "loop"
  /\ ~LoopCond(i[Slot(t)], DoFOf(routine[t]))
  /\ result' = [result EXCEPT ![t] = J[Slot(t)]]
  /\ pc' = [pc EXCEPT ![t] = "done"]
  /\ overlapped' = Overlap(t)
  /\ UNCHANGED <<routine, i, fun, J, evals, iters>>
  /\ UNCHANGED callVars
  /\ UNCHANGED guiVars

(* a call of map or diff itself *)
Direct(t) ==
  /\ pc[t] = "idle"
  /\ \E r \in Routines :
       /\ r.name \notin JacNames
       /\ routine' = [routine EXCEPT ![t] = r]
       /\ result' = [result EXCEPT ![t] =
                       Eval(FunOf(r.name), PlainArgs(t, FunOf(r.name)))]
  /\ evals' = [evals EXCEPT ![t] = 1]
  /\ pc' = [pc EXCEPT ![t] = "done"]
  /\ overlapped' = Overlap(t)
  /\ UNCHANGED <<i, fun, J, iters>>
  /\ UNCHANGED callVars
  /\ UNCHANGED guiVars

InitND ==
  /\ model = "SE2XY"
  /\ cam = Camera
  /\ T1 = SE2(SO2exp(0), <<0, One>>)
  /\ T2 = NoFrame
  /\ C = NoFrame
  /\ x = <<0, One>>
  /\ last = "none"
  /\ ret = <<>>
  /\ pc = [t \in Threads |-> "idle"]
  /\ routine = [t \in Threads |-> NoRoutine]
  /\ i = [t \in Threads |-> 0]
  /\ fun = [t \in Threads |-> NoEval]
  /\ J = [t \in Threads |-> <<>>]
  /\ result = [t \in Threads |-> <<>>]
  /\ evals = [t \in Threads |-> 0]
  /\ iters = [t \in Threads |-> 0]
  /\ overlapped = [t \in Threads |-> FALSE]
  /\ GuiConstructed([v \in Views |-> NULL])

NextND ==
  \E t \in Threads :
    \/ Begin(t)
    \/ Baseline(t)
    \/ LoopBody(t)
    \/ Return(t)
    \/ Direct(t)

SpecND == InitND /\ [][NextND]_vars

(* a thread inside a routine keeps running: map, diff and add return *)
SpecNDFair ==
  /\ InitND
  /\ [][NextND]_vars
  /\ \A t \in Threads : WF_vars(Baseline(t) \/ LoopBody(t) \/ Return(t))

(* the matrix the routine r returns when thread t runs it alone *)
Alone(t, r) ==
  IF r.name \in JacNames
  THEN [c \in 1..DoFOf(r) |->
          [writes |-> 1,
           val |-> Quot(Eval(FunOf(r.name), PerturbedArgs(t, r, c - 1)),
                        Eval(FunOf(r.name), PlainArgs(t, FunOf(r.name))))]]
  ELSE Eval(FunOf(r.name), PlainArgs(t, FunOf(r.name)))

(* C7: in every interleaving a call of map, diff or a default Jacobian
   returns what it returns when run alone *)
C7_NoInterference ==
  \A t \in Threads : pc[t] = "done" => result[t] = Alone(t, routine[t])

C7_Witness ==
  /\ \A t \in Threads : pc[t] = "done" /\ overlapped[t]
  /\ routine["t1"].name = "frameJac"
  /\ routine["t2"].name = "d_diff_dT2"
  /\ result["t1"] # result["t2"]

(* C9: a default Jacobian returns, in column i, (f(perturbed) - f(plain))/h
   where the perturbed evaluation adds the vector with h at index i and 0
   elsewhere to exactly one argument (the frame for frameJac, the point for
   pointJac, T1 for d_diff_dT1, T2 for d_diff_dT2) and passes the others
   unchanged; every column is written exactly once *)
C9_FallbackPattern ==
  \A t \in Threads :
    (pc[t] = "done" /\ routine[t].name \in JacNames) =>
      LET r == routine[t]
          n == IF r.name = "pointJac" THEN PointDoF(r.model) ELSE FrameDoF(r.model)
          f == IF r.name \in {"frameJac", "pointJac"} THEN "map" ELSE "diff"
          names == IF f = "map" THEN <<"T", "x">> ELSE <<"T1", "C", "T2">>
          which == CASE r.name = "frameJac" -> "T"
                     [] r.name = "pointJac" -> "x"
                     [] r.name = "d_diff_dT1" -> "T1"
                     [] r.name = "d_diff_dT2" -> "T2"
      IN  /\ Len(result[t]) = n
          /\ \A c \in 1..n :
               LET col == result[t][c]
               IN  /\ col.writes = 1
                   /\ col.val.h = H
                   /\ col.val.subtrahend.fn = f
                   /\ col.val.minuend.fn = f
                   /\ Len(col.val.minuend.args) = Len(names)
                   /\ Len(col.val.subtrahend.args) = Len(names)
                   /\ \A a \in 1..Len(names) :
                        /\ col.val.subtrahend.args[a] =
                             [base |-> <<t, names[a]>>, eps |-> <<>>]
                        /\ col.val.minuend.args[a] =
                             IF names[a] = which
                             THEN [base |-> <<t, names[a]>>,
                                   eps |-> [j \in 1..n |->
                                              IF j = c THEN H ELSE 0]]
                             ELSE [base |-> <<t, names[a]>>, eps |-> <<>>]

C9_Witness ==
  /\ pc["t1"] = "done"
  /\ routine["t1"] = [name |-> "d_diff_dT2", model |-> "Sim3ConFun"]
  /\ Len(result["t1"]) = 7
  /\ result["t1"][7].val.minuend.args[3].eps = <<0, 0, 0, 0, 0, 0, H>>

(* C10: a default Jacobian that has been entered returns, and when it has
   returned it has made exactly DoF loop iterations and DoF + 1 evaluations
   of map or diff *)
C10_Terminates ==
  /\ [](\A t \in Threads :
          (pc[t] = "done" /\ routine[t].name \in JacNames) =>
             /\ iters[t] = DoFOf(routine[t])
             /\ evals[t] = DoFOf(routine[t]) + 1)
  /\ \A t \in Threads : (pc[t] \in {"entry", "loop"}) ~> (pc[t] = "done")

C10_Witness ==
  /\ pc["t2"] = "done"
  /\ routine["t2"] = [name |-> "frameJac", model |-> "SE2XY"]
  /\ iters["t2"] = 3
  /\ evals["t2"] = 4


----------------------------------------------------------------------------
(* GuiWindow: operations *)

MaxConnect == 2
MaxEvents == 2

EVENT_VIEW_ACTIVATED == "EVENT_VIEW_ACTIVATED"
EVENT_VIEW_DEACTIVATED == "EVENT_VIEW_DEACTIVATED"
EVENT_OTHER == "EVENT_OTHER"
ActivationEvents == {EVENT_VIEW_ACTIVATED, EVENT_VIEW_DEACTIVATED}
Events == {EVENT_VIEW_ACTIVATED, EVENT_OTHER}

(* this->size(), and the window positions of the pointer *)
WinSize == <<2, 2>>
Positions == {<<0, 0>>, <<2, 0>>, <<0, 2>>}

(* a RobotVision::Rectangle; lengths relative to the window are counted in
   units of 1/size *)
Rectangle(x1, y1, x2, y2) == [x1 |-> x1, y1 |-> y1, x2 |-> x2, y2 |-> y2]
contains(box, r) ==
  /\ box.x1 <= r.x1
  /\ r.x2 <= box.x2
  /\ box.y1 <= r.y1
  /\ r.y2 <= box.y2

(* the left half of the window and its upper half: they overlap *)
Boxes == {Rectangle(0, 0, 1, 2), Rectangle(0, 1, 2, 2)}

Handler(v) == IF v = "v1" THEN "h1" ELSE "h2"
Keys == {65}
States == {0}
Buttons == {1}

(* rel_x = wp.x/size.x and rel_y = 1 - wp.y/size.y *)
rel_x(wp) == wp[1]
rel_y(wp) == WinSize[2] - wp[2]

(* GuiWindow::view_coords: the position inside the view, in its pixels *)
view_coords(view, wp) ==
  LET box == view.bounding_box
  IN  <<((rel_x(wp) - box.x1) * view.pixel_size[1]) \div (box.x2 - box.x1),
        ((rel_y(wp) - box.y1) * view.pixel_size[2]) \div (box.y2 - box.y1)>>

(* the view under a window position: the last view of the list whose box
   contains it *)
get_view_latest(list, vs, wp) ==
  LET hit == {k \in 1..Len(list) :
                contains(vs[list[k]].bounding_box,
                         Rectangle(rel_x(wp), rel_y(wp), rel_x(wp), rel_y(wp)))}
  IN  IF hit = {} THEN [view |-> NULL, vp |-> <<0, 0>>]
      ELSE LET k == CHOOSE m \in hit : \A n \in hit : n <= m
           IN  [view |-> list[k], vp |-> view_coords(vs[list[k]], wp)]

(* GuiWindow::get_view: the loop returns at the first view of the list whose
   box contains the position, and NULL after the last *)
RECURSIVE get_view(_, _, _)
get_view(list, vs, wp) ==
  IF list = <<>> THEN [view |-> NULL, vp |-> <<0, 0>>]
  ELSE IF contains(vs[Head(list)].bounding_box,
                   Rectangle(rel_x(wp), rel_y(wp), rel_x(wp), rel_y(wp)))
       THEN [view |-> Head(list), vp |-> view_coords(vs[Head(list)], wp)]
       ELSE get_view(Tail(list), vs, wp)

(* a call on the handler of view v *)
Send(vs, v, name, args) ==
  [view |-> v, handler |-> vs[v].handler, call |-> name, args |-> args]

(* if( view && view->get_handler() ) view->get_handler()->name(args) *)
ToHandler(vs, v, name, args) ==
  IF v # NULL /\ vs[v].handler # NULL THEN <<Send(vs, v, name, args)>>
  ELSE <<>>

(* set_active_view without the first if *)
set_active_view_silent(w, vs, view) ==
  [win |-> [w EXCEPT !.active_view = view],
   sent |-> ToHandler(vs, view, "on_event", <<EVENT_VIEW_ACTIVATED>>)]

(* GuiWindow::set_active_view: the window after the call and the calls made
   on handlers, in order *)
set_active_view(w, vs, view) ==
  [win |-> [w EXCEPT !.active_view = view],
   sent |-> ToHandler(vs, w.active_view, "on_event", <<EVENT_VIEW_DEACTIVATED>>)
            \o ToHandler(vs, view, "on_event", <<EVENT_VIEW_ACTIVATED>>)]

(* routing to the first view of the list *)
RouteFirst(w, vs, name, args) ==
  IF w.viewpt_list = <<>> THEN <<>>
  ELSE ToHandler(vs, w.viewpt_list[1], name, args)

(* the body shared by on_key_down, on_key_up, on_mouse_move, on_mouse_up,
   on_resize and on_event *)
Route(w, vs, name, args) == ToHandler(vs, w.active_view, name, args)

(* connectView with the id taken after the increment *)
connectView_incremented(w, vs, v, box) ==
  [win |-> [w EXCEPT !.viewpt_list = Append(w.viewpt_list, v),
                     !.num_id = w.num_id + 1],
   views |-> [vs EXCEPT ![v].id = w.num_id + 1, ![v].bounding_box = box]]

(* GuiWindow::connectView *)
connectView(w, vs, v, box) ==
  [win |-> [w EXCEPT !.viewpt_list = Append(w.viewpt_list, v),
                     !.num_id = w.num_id + 1],
   views |-> [vs EXCEPT ![v].id = w.num_id, ![v].bounding_box = box]]

(* the activation events among the calls sent, for each view *)
ActivationsOf(sent, v) ==
  SelectSeq(sent, LAMBDA e : /\ e.view = v
                             /\ e.call = "on_event"
                             /\ e.args[1] \in ActivationEvents)

Receive(sent) == [v \in Views |-> received[v] \o ActivationsOf(sent, v)]

Called(name, args) == [name |-> name, args |-> args]

(* views the caller may make active: connected ones, or none *)
Connected(w) == {w.viewpt_list[k] : k \in 1..Len(w.viewpt_list)}

Call_connectView ==
  /\ Len(win.viewpt_list) < MaxConnect
  /\ \E v \in Views, box \in Boxes :
       /\ win' = connectView(win, views, v, box).win
       /\ views' = connectView(win, views, v, box).views
       /\ connected' = Append(connected, v)
       /\ called' = Called("connectView", <<v, box>>)
  /\ delivered' = <<>>
  /\ UNCHANGED <<received, forwarded>>
  /\ UNCHANGED <<callVars, ndVars>>

Call_set_active_view ==
  /\ \A v \in Views : Len(received[v]) < MaxEvents
  /\ \E view \in Connected(win) \cup {NULL} :
       LET s == set_active_view(win, views, view)
       IN  /\ win' = s.win
           /\ delivered' = s.sent
           /\ received' = Receive(s.sent)
           /\ called' = Called("set_active_view", <<view>>)
  /\ UNCHANGED <<views, connected, forwarded>>
  /\ UNCHANGED <<callVars, ndVars>>

Call_on_mouse_down ==
  /\ \A v \in Views : Len(received[v]) < MaxEvents
  /\ \E where \in Positions, state \in States, button \in Buttons :
       LET g == get_view(win.viewpt_list, views, where)
           s == IF g.view # NULL /\ g.view # win.active_view
                THEN set_active_view(win, views, g.view)
                ELSE [win |-> win, sent |-> <<>>]
           down == IF g.view # NULL
                   THEN ToHandler(views, s.win.active_view, "on_mouse_down",
                                  <<g.vp, state, button>>)
                   ELSE <<>>
       IN  /\ win' = [s.win EXCEPT !.active_pos = where]
           /\ delivered' = s.sent \o down
           /\ received' = Receive(s.sent \o down)
           /\ called' = Called("on_mouse_down", <<where, state, button>>)
  /\ UNCHANGED <<views, connected, forwarded>>
  /\ UNCHANGED <<callVars, ndVars>>

Call_on_key_down ==
  /\ \E k \in Keys :
       /\ delivered' = Route(win, views, "on_key_down", <<k>>)
       /\ called' = Called("on_key_down", <<k>>)
  /\ UNCHANGED <<win, views, received, connected, forwarded>>
  /\ UNCHANGED <<callVars, ndVars>>

Call_on_key_up ==
  /\ \E k \in Keys :
       /\ delivered' = Route(win, views, "on_key_up", <<k>>)
       /\ called' = Called("on_key_up", <<k>>)
  /\ UNCHANGED <<win, views, received, connected, forwarded>>
  /\ UNCHANGED <<callVars, ndVars>>

Call_on_mouse_move ==
  /\ \E where \in Positions, state \in States :
       /\ delivered' =
            IF win.active_view # NULL /\ views[win.active_view].handler # NULL
            THEN Route(win, views, "on_mouse_move",
                       <<view_coords(views[win.active_view], where), state>>)
            ELSE <<>>
       /\ called' = Called("on_mouse_move", <<where, state>>)
  /\ UNCHANGED <<win, views, received, connected, forwarded>>
  /\ UNCHANGED <<callVars, ndVars>>

Call_on_mouse_up ==
  /\ \E where \in Positions, state \in States, button \in Buttons :
       /\ delivered' =
            IF win.active_view # NULL /\ views[win.active_view].handler # NULL
            THEN Route(win, views, "on_mouse_up",
                       <<view_coords(views[win.active_view], where), state,
                         button>>)
            ELSE <<>>
       /\ called' = Called("on_mouse_up", <<where, state, button>>)
  /\ UNCHANGED <<win, views, received, connected, forwarded>>
  /\ UNCHANGED <<callVars, ndVars>>

Call_on_resize ==
  /\ \E size \in {WinSize} :
       /\ delivered' = Route(win, views, "on_resize", <<size>>)
       /\ called' = Called("on_resize", <<size>>)
  /\ UNCHANGED <<win, views, received, connected, forwarded>>
  /\ UNCHANGED <<callVars, ndVars>>

Call_on_event ==
  /\ \A v \in Views : Len(received[v]) < MaxEvents
  /\ \E event \in Events :
       /\ delivered' = Route(win, views, "on_event", <<event>>)
       /\ received' = Receive(Route(win, views, "on_event", <<event>>))
       /\ forwarded' = (forwarded \/ ActivationsOf(
                          Route(win, views, "on_event", <<event>>),
                          win.active_view) # <<>>)
       /\ called' = Called("on_event", <<event>>)
  /\ UNCHANGED <<win, views, connected>>
  /\ UNCHANGED <<callVars, ndVars>>

InitGui ==
  /\ model = "SE2XY"
  /\ cam = Camera
  /\ T1 = SE2(SO2exp(0), <<0, One>>)
  /\ T2 = NoFrame
  /\ C = NoFrame
  /\ x = <<0, One>>
  /\ last = "none"
  /\ ret = <<>>
  /\ pc = [t \in Threads |-> "idle"]
  /\ routine = [t \in Threads |-> NoRoutine]
  /\ i = [t \in Threads |-> 0]
  /\ fun = [t \in Threads |-> NoEval]
  /\ J = [t \in Threads |-> <<>>]
  /\ result = [t \in Threads |-> <<>>]
  /\ evals = [t \in Threads |-> 0]
  /\ iters = [t \in Threads |-> 0]
  /\ overlapped = [t \in Threads |-> FALSE]
  /\ \E handlers \in [Views -> {NULL, "h1", "h2"}] :
       /\ handlers["v1"] = Handler("v1")
       /\ handlers["v2"] \in {NULL, Handler("v2")}
       /\ GuiConstructed(handlers)

NextGui ==
  \/ Call_connectView
  \/ Call_set_active_view
  \/ Call_on_mouse_down
  \/ Call_on_key_down
  \/ Call_on_key_up
  \/ Call_on_mouse_move
  \/ Call_on_mouse_up
  \/ Call_on_resize
  \/ Call_on_event

SpecGui == InitGui /\ [][NextGui]_vars

----------------------------------------------------------------------------
(* properties of GuiWindow *)

AllHandlers == \A v \in Views : views[v].handler # NULL
Count(v, event) ==
  Cardinality({j \in 1..Len(received[v]) : received[v][j].args[1] = event})
Holding(v) == Count(v, EVENT_VIEW_ACTIVATED) > Count(v, EVENT_VIEW_DEACTIVATED)
IsSent(e, v, name) ==
  e.view = v /\ e.handler = views[v].handler /\ e.call = name
IsActivation(e, v, event) == IsSent(e, v, "on_event") /\ e.args[1] = event

(* C12: with every view holding a handler and activation events sent only
   by set_active_view and on_mouse_down: at most one view is active; each
   view's activation events alternate ACTIVATED, DEACTIVATED, starting with
   ACTIVATED; a view has one more ACTIVATED than DEACTIVATED exactly when it
   is the active view; and when the active view changes from A to B, A's
   handler receives DEACTIVATED before B's handler receives ACTIVATED *)
C12_ActivationLifecycle ==
  /\ []((AllHandlers /\ ~forwarded) =>
          /\ Cardinality({v \in Views : Holding(v)}) <= 1
          /\ \A v \in Views :
               /\ \A j \in 1..Len(received[v]) :
                    received[v][j].args[1] =
                      IF j % 2 = 1 THEN EVENT_VIEW_ACTIVATED
                      ELSE EVENT_VIEW_DEACTIVATED
               /\ (Count(v, EVENT_VIEW_ACTIVATED) =
                     Count(v, EVENT_VIEW_DEACTIVATED) + 1) <=>
                  (win.active_view = v))
  /\ [][(/\ AllHandlers
         /\ win.active_view # NULL
         /\ win'.active_view # NULL
         /\ win'.active_view # win.active_view) =>
        \E j, k \in 1..Len(delivered') :
          /\ j < k
          /\ IsActivation(delivered'[j], win.active_view,
                          EVENT_VIEW_DEACTIVATED)
          /\ IsActivation(delivered'[k], win'.active_view,
                          EVENT_VIEW_ACTIVATED)]_vars

C12_Witness ==
  /\ AllHandlers
  /\ ~forwarded
  /\ called.name = "on_mouse_down"
  /\ win.active_view = "v2"
  /\ Len(received["v1"]) = 2
  /\ Len(received["v2"]) = 1
  /\ Len(delivered) = 3

(* the part of a call's deliveries that are activation events *)
ActivationsIn(sent) ==
  {j \in 1..Len(sent) :
     sent[j].call = "on_event" /\ sent[j].args[1] \in ActivationEvents}
Point(wp) == Rectangle(rel_x(wp), rel_y(wp), rel_x(wp), rel_y(wp))
(* the connected views whose box contains the position, by the order in
   which they were connected *)
Under(wp) ==
  {k \in 1..Len(connected) :
     contains(views[connected[k]].bounding_box, Point(wp))}
Earliest(wp) == connected[CHOOSE k \in Under(wp) : \A n \in Under(wp) : k <= n]
MouseDownStep == called'.name = "on_mouse_down"

(* what the step of an on_mouse_down call does: the earliest-connected view
   under the position becomes the active view and its handler, if any,
   receives the mouse-down last, after every activation event; a position
   under no connected view leaves the active view and sends nothing *)
MouseDownSelects ==
  LET wp == called'.args[1]
  IN  IF Under(wp) # {}
      THEN /\ win'.active_view = Earliest(wp)
           /\ IF views[Earliest(wp)].handler # NULL
              THEN /\ delivered' # <<>>
                   /\ IsSent(delivered'[Len(delivered')], Earliest(wp),
                             "on_mouse_down")
                   /\ \A j \in 1..(Len(delivered') - 1) :
                        j \in ActivationsIn(delivered')
              ELSE \A j \in 1..Len(delivered') :
                     delivered'[j].call # "on_mouse_down"
      ELSE /\ win'.active_view = win.active_view
           /\ delivered' = <<>>

(* C13, as stated: a mouse-down selects the earliest-connected view under
   the position, and a mouse-down at a position inside the box of the
   already-active view sends no activation or deactivation event *)
C13_MouseDownSelects_InsideActive ==
  [][MouseDownStep =>
       /\ MouseDownSelects
       /\ (/\ win.active_view # NULL
           /\ contains(views[win.active_view].bounding_box,
                       Point(called'.args[1]))) =>
          ActivationsIn(delivered') = {}]_vars

(* C13: a mouse-down selects the earliest-connected view under the
   position, that view's handler receives the mouse-down after any
   activation events, and a mouse-down whose selected view is the
   already-active view sends no activation or deactivation event; a
   position under no connected view changes and sends nothing *)
C13_MouseDownSelects ==
  [][MouseDownStep =>
       /\ MouseDownSelects
       /\ (Under(called'.args[1]) # {} /\
           Earliest(called'.args[1]) = win.active_view) =>
          ActivationsIn(delivered') = {}]_vars

C13_Witness ==
  /\ called.name = "on_mouse_down"
  /\ Len(connected) = 2
  /\ connected[1] # connected[2]
  /\ Under(called.args[1]) = {1, 2}
  /\ win.active_view = connected[1]
  /\ Len(delivered) = 3
  /\ IsActivation(delivered[1], connected[2], EVENT_VIEW_DEACTIVATED)
  /\ IsActivation(delivered[2], connected[1], EVENT_VIEW_ACTIVATED)
  /\ IsSent(delivered[3], connected[1], "on_mouse_down")

Routed ==
  {"on_key_down", "on_key_up", "on_mouse_move", "on_mouse_up", "on_resize",
   "on_event"}

(* C14: each of on_key_down, on_key_up, on_mouse_move, on_mouse_up,
   on_resize and on_event sends its event to exactly one handler, that of
   the active view, and to none when no view is active or the active view
   has no handler; it changes neither the active view nor the connected
   views *)
C14_RoutesToActiveView ==
  [][called'.name \in Routed =>
       /\ win'.active_view = win.active_view
       /\ win'.viewpt_list = win.viewpt_list
       /\ connected' = connected
       /\ views' = views
       /\ IF win.active_view # NULL /\ views[win.active_view].handler # NULL
          THEN /\ Len(delivered') = 1
               /\ IsSent(delivered'[1], win.active_view, called'.name)
          ELSE delivered' = <<>>]_vars

C14_Witness ==
  /\ called.name = "on_mouse_up"
  /\ Len(win.viewpt_list) = 2
  /\ win.viewpt_list[1] = "v1"
  /\ win.active_view = "v2"
  /\ Len(delivered) = 1
  /\ IsSent(delivered[1], "v2", "on_mouse_up")

DistinctViews ==
  \A j, k \in 1..Len(connected) : j # k => connected[j] # connected[k]

(* C15: after connectView calls on distinct views the k-th connected view,
   counting from 0, has id k, no two connected views share an id, num_id is
   the number of connected views and the view list holds the views in
   connection order; no other operation changes num_id or the id of a
   view *)
C15_SequentialIds ==
  /\ [](DistinctViews =>
          /\ \A k \in 1..Len(connected) : views[connected[k]].id = k - 1
          /\ \A j, k \in 1..Len(connected) :
               j # k => views[connected[j]].id # views[connected[k]].id
          /\ win.num_id = Len(connected)
          /\ win.viewpt_list = connected)
  /\ [][called'.name # "connectView" =>
          /\ win'.num_id = win.num_id
          /\ \A v \in Views : views'[v].id = views[v].id]_vars

C15_Witness ==
  /\ called.name = "connectView"
  /\ Len(connected) = 2
  /\ DistinctViews
  /\ views[connected[1]].id = 0
  /\ views[connected[2]].id = 1
  /\ win.num_id = 2

====
